---- MODULE Spec2Model ----
(***************************************************************************)
(* A model of the matching and ranking engine of career-agent:             *)
(*   JobRecommender.calculate_skill_match_score   (job_recommender.py)     *)
(*   JobRecommender.get_semantic_similarity_score (job_recommender.py)     *)
(*   JobRecommender.recommend_jobs                (job_recommender.py)     *)
(*                                                                         *)
(* and of its two skill extractors:                                        *)
(*   ResumeParser.extract_skills                  (resume_parser.py)       *)
(*   JobCrawler.extract_skills_from_description   (job_crawler.py)         *)
(*                                                                         *)
(* Four specifications share the module:                                   *)
(*   Spec      - one recommend_jobs call, job by job, against a job store  *)
(*   SpecScore - calculate_skill_match_score applied to two skill mappings *)
(*   SpecSim   - get_semantic_similarity_score applied to two texts        *)
(*   SpecExtract - both extractors applied to one text                     *)
(*                                                                         *)
(* Numbers.  The code computes in IEEE doubles.  The model computes in     *)
(* exact rationals [n, d] in lowest terms with d > 0, plus the one         *)
(* non-number the code can produce, NaN, written [n |-> 0, d |-> 0].       *)
(* Comparisons follow IEEE: every ordered comparison with NaN is false.    *)
(***************************************************************************)
EXTENDS Integers, Sequences, FiniteSets, TLC

VARIABLES
    \* ---- Spec: one recommend_jobs call
    pc,                  \* "idle" | "loop" | "returned" | "raised"
    resume_id,           \* argument of the call
    min_skill_match,     \* argument of the call (a rational)
    max_recommendations, \* argument of the call (an integer)
    all_jobs,            \* the job store's documents, in store order
    idx,                 \* position of the for-loop over all_jobs
    recommendations,     \* the list the loop appends to
    result,              \* the returned list (meaningful when pc = "returned")
    trace,               \* what the call did, in order: skill scorings and embed calls
    \* ---- SpecScore: calculate_skill_match_score
    sc_resume, sc_job, sc_pc, sc_out,
    \* ---- SpecSim: get_semantic_similarity_score
    sim_resume, sim_job, sim_pc, sim_out,
    \* ---- SpecExtract: extract_skills and extract_skills_from_description
    ex_text, ex_pc, ex_resume, ex_job

recVars == <<pc, resume_id, min_skill_match, max_recommendations, all_jobs, idx,
             recommendations, result, trace>>
scVars == <<sc_resume, sc_job, sc_pc, sc_out>>
simVars == <<sim_resume, sim_job, sim_pc, sim_out>>
exVars == <<ex_text, ex_pc, ex_resume, ex_job>>
vars == <<recVars, scVars, simVars, exVars>>

---------------------------------------------------------------------------
(* Numbers *)

Abs(x) == IF x < 0 THEN -x ELSE x

RECURSIVE GCD(_, _)
GCD(a, b) == IF b = 0 THEN a ELSE GCD(b, a % b)

NaN == [n |-> 0, d |-> 0]

IsNaN(a) == a.d = 0

\* n/d in lowest terms with a positive denominator; 0/0 is NaN.  A nonzero
\* numerator over zero (an IEEE infinity) does not occur: the only division
\* by zero in the code is by a product of norms, and a zero norm forces a
\* zero dot product.
Rat(n, d) ==
    IF d = 0 THEN NaN
    ELSE LET g == GCD(Abs(n), Abs(d))
             s == IF d < 0 THEN -1 ELSE 1
         IN  [n |-> (s * n) \div g, d |-> (s * d) \div g]

Zero == Rat(0, 1)
One == Rat(1, 1)

RAdd(a, b) == IF IsNaN(a) \/ IsNaN(b) THEN NaN ELSE Rat(a.n * b.d + b.n * a.d, a.d * b.d)
RMul(a, b) == IF IsNaN(a) \/ IsNaN(b) THEN NaN ELSE Rat(a.n * b.n, a.d * b.d)
RDiv(a, b) == IF IsNaN(a) \/ IsNaN(b) THEN NaN ELSE Rat(a.n * b.d, a.d * b.n)
RLt(a, b) == ~IsNaN(a) /\ ~IsNaN(b) /\ a.n * b.d < b.n * a.d
RLe(a, b) == ~IsNaN(a) /\ ~IsNaN(b) /\ a.n * b.d <= b.n * a.d
RGt(a, b) == RLt(b, a)
RGe(a, b) == RLe(b, a)

Range(s) == {s[i] : i \in DOMAIN s}

Reverse(s) == [i \in 1..Len(s) |-> s[Len(s) + 1 - i]]

---------------------------------------------------------------------------
(* calculate_skill_match_score *)

\* The iteration order of the weights dict.
CategoryOrder ==
    <<"programming_languages", "frameworks", "databases", "cloud_platforms", "tools">>

Categories == Range(CategoryOrder)

weights ==
    [programming_languages |-> Rat(3, 10),
     frameworks            |-> Rat(1, 4),
     databases             |-> Rat(1, 5),
     cloud_platforms       |-> Rat(3, 20),
     tools                 |-> Rat(1, 10)]

\* A skill mapping is a function from some of the category names to lists
\* (sequences) of tokens: what json.loads gives for the stored metadata.

\* `category in resume_skills and category in job_skills`
CategoryInBoth(category, resume_skills, job_skills) ==
    category \in DOMAIN resume_skills /\ category \in DOMAIN job_skills

\* `if job_skill_set:` with job_skill_set = set(job_skills[category])
RequiresSkills(job_skill_list) == Range(job_skill_list) # {}

\* category_score = len(matched_skills) / len(job_skill_set)
CategoryScore_OverResume(resume_skill_list, job_skill_list) ==
    Rat(Cardinality(Range(resume_skill_list) \cap Range(job_skill_list)),
        Cardinality(Range(resume_skill_list)))
CategoryScore_CountResume(resume_skill_list, job_skill_list) ==
    Rat(Cardinality(Range(resume_skill_list)), Cardinality(Range(job_skill_list)))
CategoryScore_ListLen(resume_skill_list, job_skill_list) ==
    Rat(Cardinality(Range(resume_skill_list) \cap Range(job_skill_list)),
        Len(job_skill_list))
CategoryScore(resume_skill_list, job_skill_list) ==
    Rat(Cardinality(Range(resume_skill_list) \cap Range(job_skill_list)),
        Cardinality(Range(job_skill_list)))

\* The body of the for loop, from category number k on, with the two
\* accumulators total_weight and matched_weight.
RECURSIVE ScoreLoop(_, _, _, _, _)
ScoreLoop(k, resume_skills, job_skills, total_weight, matched_weight) ==
    IF k > Len(CategoryOrder)
    THEN [total_weight |-> total_weight, matched_weight |-> matched_weight]
    ELSE LET category == CategoryOrder[k]
         IN  IF CategoryInBoth(category, resume_skills, job_skills)
                /\ RequiresSkills(job_skills[category])
             THEN ScoreLoop(k + 1, resume_skills, job_skills,
                            RAdd(total_weight, weights[category]),
                            RAdd(matched_weight,
                                 RMul(weights[category],
                                      CategoryScore(resume_skills[category],
                                                    job_skills[category]))))
             ELSE ScoreLoop(k + 1, resume_skills, job_skills,
                            total_weight, matched_weight)

\* return matched_weight / total_weight if total_weight > 0 else 0.0
calculate_skill_match_score(resume_skills, job_skills) ==
    LET acc == ScoreLoop(1, resume_skills, job_skills, Zero, Zero)
    IN  IF RGt(acc.total_weight, Zero)
        THEN RDiv(acc.matched_weight, acc.total_weight)
        ELSE Zero

---------------------------------------------------------------------------
(* The embedding provider and get_semantic_similarity_score *)

\* The texts of the model: the resume's text and the page_content of the
\* job documents.  The provider is deterministic per text; EmbedVector is
\* the vector it returns when the call succeeds.  "blank" stands for a
\* degenerate text whose embedding is the all-zero vector.
Texts == {"resume_text", "aligned", "close", "orthogonal", "opposite", "blank"}

EmbedVector ==
    [t \in Texts |->
        CASE t = "resume_text" -> <<3, 4>>
          [] t = "aligned"     -> <<3, 4>>
          [] t = "close"       -> <<4, 3>>
          [] t = "orthogonal"  -> <<4, -3>>
          [] t = "opposite"    -> <<-3, -4>>
          [] t = "blank"       -> <<0, 0>>]

\* What one call of the provider can do: both embed_documents calls
\* succeed, the first (the resume's) raises, or the second (the job's) raises.
ProviderOutcomes == {"ok", "resume_fails", "job_fails"}

\* np.dot
Dot(u, v) == u[1] * v[1] + u[2] * v[2]

\* np.linalg.norm (the vectors of the model have integral norms)
VecNorm(u) == CHOOSE r \in 0..(Abs(u[1]) + Abs(u[2])) : r * r = Dot(u, u)

\* similarity = np.dot(a, b) / (np.linalg.norm(a) * np.linalg.norm(b));
\* numpy divides 0.0 by 0.0 to nan (with a warning, not an exception).
CosineSimilarity(u, v) == RDiv(Rat(Dot(u, v), 1), Rat(VecNorm(u) * VecNorm(v), 1))

\* except Exception: print(...); return 0.0
EmbedFailed_Propagates == [raised |-> TRUE, value |-> Zero]
EmbedFailed == [raised |-> FALSE, value |-> Zero]

\* The embed_documents calls made, in order, with whether each returned.
EmbedCalls(resume_text, job_description, outcome) ==
    CASE outcome = "resume_fails" -> <<[text |-> resume_text, ok |-> FALSE]>>
      [] outcome = "job_fails"    -> <<[text |-> resume_text, ok |-> TRUE],
                                       [text |-> job_description, ok |-> FALSE]>>
      [] outcome = "ok"           -> <<[text |-> resume_text, ok |-> TRUE],
                                       [text |-> job_description, ok |-> TRUE]>>

get_semantic_similarity_score(resume_text, job_description, outcome) ==
    LET r == IF outcome = "ok"
             THEN [raised |-> FALSE,
                   value  |-> CosineSimilarity(EmbedVector[resume_text],
                                               EmbedVector[job_description])]
             ELSE EmbedFailed
    IN  [raised |-> r.raised, value |-> r.value,
         calls  |-> EmbedCalls(resume_text, job_description, outcome)]

---------------------------------------------------------------------------
(* list.sort(key=lambda x: x['final_score'], reverse=True) and the slice *)

KeyLt(x, y) == RLt(x.final_score, y.final_score)

\* count_run: the length of the run the list starts with, ascending
\* (no element less than its predecessor) or strictly descending.
RECURSIVE RunEnd(_, _, _)
RunEnd(s, i, descending) ==
    IF i > Len(s) THEN i - 1
    ELSE IF descending
         THEN IF KeyLt(s[i], s[i - 1]) THEN RunEnd(s, i + 1, descending) ELSE i - 1
         ELSE IF KeyLt(s[i], s[i - 1]) THEN i - 1 ELSE RunEnd(s, i + 1, descending)

CountRun(s) ==
    IF Len(s) = 1 THEN [n |-> 1, descending |-> FALSE]
    ELSE LET descending == KeyLt(s[2], s[1])
         IN  [n |-> RunEnd(s, 3, descending), descending |-> descending]

\* binarysort's search for the place of pivot in s[l..r-1]
RECURSIVE BinarySearch(_, _, _, _)
BinarySearch(s, pivot, l, r) ==
    LET p  == l + ((r - l) \div 2)
        nl == IF KeyLt(pivot, s[p]) THEN l ELSE p + 1
        nr == IF KeyLt(pivot, s[p]) THEN p ELSE r
    IN  IF nl < nr THEN BinarySearch(s, pivot, nl, nr) ELSE nl

\* binarysort: s[1..start-1] is sorted; insert s[start], s[start+1], ...
RECURSIVE BinarySort(_, _)
BinarySort(s, start) ==
    IF start > Len(s) THEN s
    ELSE LET l == BinarySearch(s, s[start], 1, start)
             t == [i \in 1..Len(s) |->
                     IF i < l THEN s[i]
                     ELSE IF i = l THEN s[start]
                     ELSE IF i <= start THEN s[i - 1]
                     ELSE s[i]]
         IN  BinarySort(t, start + 1)

\* The forward sort of a list shorter than 64: one run, then binary insertion.
ForwardSort(s) ==
    IF Len(s) < 2 THEN s
    ELSE LET run == CountRun(s)
             t   == IF run.descending
                    THEN Reverse(SubSeq(s, 1, run.n)) \o SubSeq(s, run.n + 1, Len(s))
                    ELSE s
         IN  BinarySort(t, run.n + 1)

\* reverse=True: reverse, sort forward, reverse again.
SortByFinalScore(s) == Reverse(ForwardSort(Reverse(s)))

\* s[:n] of Python: a negative n counts from the end.
Slice(s, n) ==
    IF n >= 0
    THEN SubSeq(s, 1, IF n < Len(s) THEN n ELSE Len(s))
    ELSE SubSeq(s, 1, IF Len(s) + n > 0 THEN Len(s) + n ELSE 0)

---------------------------------------------------------------------------
(* The stores *)

\* A skill mapping with a key for every category, as extract_skills and
\* extract_skills_from_description build them.
Skills(pl, fw, db, cp, tl) ==
    [programming_languages |-> pl, frameworks |-> fw, databases |-> db,
     cloud_platforms |-> cp, tools |-> tl]

\* The text stored under metadata['skills']: json.dumps of a mapping, or,
\* in a store written by anything else, a text that is not JSON.
JsonText(mapping) == [wellformed |-> TRUE, value |-> mapping]
NotJsonText == [wellformed |-> FALSE, value |-> <<>>]

\* json.loads: the mapping, or a JSONDecodeError.
JsonLoads(text) ==
    IF text.wellformed THEN [raised |-> FALSE, value |-> text.value]
    ELSE [raised |-> TRUE, value |-> <<>>]

\* metadata.get('skills', '{}')
SkillsText(metadata) ==
    IF "skills" \in DOMAIN metadata THEN metadata.skills ELSE JsonText(<<>>)

\* resume_store: one resume, stored under "r1".
StoredResumeIds == {"r1"}

ResumeDoc ==
    [metadata     |-> [skills |-> JsonText(Skills(<<"python">>, <<>>, <<>>, <<>>, <<"git">>))],
     page_content |-> "resume_text"]

\* The documents a job store is filled from.  Against the resume above:
\*   1  skill score 1    similarity 1        final 1
\*   2  skill score 1/2  similarity 24/25    final 319/500
\*   3  skill score 2/5  zero embedding
\*   4  skill score 1/5  (below every threshold of the model)
\*   5  metadata['skills'] is not JSON
\*   6  no metadata['skills']: skill score 0
JobDocs ==
    << [metadata     |-> [skills |-> JsonText(Skills(<<"python">>, <<>>, <<>>, <<>>, <<"git">>))],
        page_content |-> "aligned"],
       [metadata     |-> [skills |-> JsonText(Skills(<<"python", "java">>, <<>>, <<>>, <<>>, <<>>))],
        page_content |-> "close"],
       [metadata     |-> [skills |-> JsonText(Skills(<<"python">>, <<"react">>, <<"mysql">>, <<>>, <<>>))],
        page_content |-> "blank"],
       [metadata     |-> [skills |-> JsonText(Skills(<<>>, <<"react">>, <<>>, <<"aws">>, <<"git">>))],
        page_content |-> "orthogonal"],
       [metadata     |-> [skills |-> NotJsonText],
        page_content |-> "opposite"],
       [metadata     |-> <<>>,
        page_content |-> "opposite"] >>

\* The largest job store of the model.
MaxJobs == 3

\* A job store: up to MaxJobs documents; a document's id is its place.
JobStores ==
    UNION {[1..n -> Range(JobDocs)] : n \in 0..MaxJobs}

\* The arguments a caller passes (main.py passes min_match and max_jobs
\* from the query string as they come): the default threshold 0.3, a
\* threshold a score of the store equals, and one above 1; a negative
\* count, none, fewer than the store holds, and the default 5.
ResumeIdArgs == {"r1", "r9"}
MinSkillMatchArgs == {Rat(3, 10), Rat(1, 2), Rat(3, 2)}
MaxRecommendationsArgs == {-1, 0, 2, 5}

---------------------------------------------------------------------------
(* recommend_jobs *)

\* if skill_score >= min_skill_match:
PassesThreshold_Always(skill_score, min) == TRUE
PassesThreshold(skill_score, min) == RGe(skill_score, min)

\* final_score = (skill_score * 0.7) + (semantic_score * 0.3)
FinalScore_WeightsSwapped(skill_score, semantic_score) ==
    RAdd(RMul(skill_score, Rat(3, 10)), RMul(semantic_score, Rat(7, 10)))
FinalScore(skill_score, semantic_score) ==
    RAdd(RMul(skill_score, Rat(7, 10)), RMul(semantic_score, Rat(3, 10)))

\* The dict appended to recommendations (the display metadata left out).
Recommendation(job_id, job, skill_score, semantic_score) ==
    [job_id              |-> job_id,
     description         |-> job.page_content,
     skill_match_score   |-> skill_score,
     semantic_similarity |-> semantic_score,
     final_score         |-> FinalScore(skill_score, semantic_score)]

\* recommendations.sort(...); return recommendations[:max_recommendations]
SortAndTruncate(recs, max) == Slice(SortByFinalScore(recs), max)

SkillEvent(job_id, skill_score) ==
    [op |-> "skill", job |-> job_id, score |-> skill_score, text |-> "", ok |-> TRUE]
EmbedEvents(job_id, calls) ==
    [k \in 1..Len(calls) |->
        [op |-> "embed", job |-> job_id, score |-> Zero,
         text |-> calls[k].text, ok |-> calls[k].ok]]

\* The call, up to the for loop: the resume is looked up and its skills parsed.
Call(rid, min, max) ==
    /\ pc = "idle"
    /\ resume_id' = rid
    /\ min_skill_match' = min
    /\ max_recommendations' = max
    /\ idx' = 1
    /\ IF rid \notin StoredResumeIds \/ JsonLoads(SkillsText(ResumeDoc.metadata)).raised
       THEN /\ pc' = "raised"
            /\ result' = <<>>
       ELSE IF Len(all_jobs) = 0
       THEN /\ pc' = "returned"
            /\ result' = SortAndTruncate(<<>>, max)
       ELSE /\ pc' = "loop"
            /\ result' = <<>>
    /\ UNCHANGED <<all_jobs, recommendations, trace, scVars, simVars, exVars>>

\* The iteration with the similarity computed for every job and the
\* threshold applied afterwards.
Iteration_EmbedFirst(job_id, job, outcome) ==
    LET resume_skills == JsonLoads(SkillsText(ResumeDoc.metadata)).value
        parsed        == JsonLoads(SkillsText(job.metadata))
        skill_score   == calculate_skill_match_score(resume_skills, parsed.value)
        sem           == get_semantic_similarity_score(ResumeDoc.page_content,
                                                       job.page_content, outcome)
        scored        == Append(trace, SkillEvent(job_id, skill_score))
                            \o EmbedEvents(job_id, sem.calls)
    IN  IF parsed.raised
        THEN [raised |-> TRUE, recommendations |-> recommendations, trace |-> trace]
        ELSE [raised          |-> sem.raised,
              recommendations |-> IF sem.raised \/ ~PassesThreshold(skill_score, min_skill_match)
                                  THEN recommendations
                                  ELSE Append(recommendations,
                                              Recommendation(job_id, job, skill_score, sem.value)),
              trace           |-> scored]

\* What one iteration of the for loop does to (recommendations, trace),
\* the provider behaving as `outcome` if it is called.
Iteration(job_id, job, outcome) ==
    LET resume_skills == JsonLoads(SkillsText(ResumeDoc.metadata)).value
        parsed        == JsonLoads(SkillsText(job.metadata))
        skill_score   == calculate_skill_match_score(resume_skills, parsed.value)
        sem           == get_semantic_similarity_score(ResumeDoc.page_content,
                                                       job.page_content, outcome)
        scored        == Append(trace, SkillEvent(job_id, skill_score))
    IN  IF parsed.raised
        THEN [raised |-> TRUE, recommendations |-> recommendations, trace |-> trace]
        ELSE IF ~PassesThreshold(skill_score, min_skill_match)
        THEN [raised |-> FALSE, recommendations |-> recommendations, trace |-> scored]
        ELSE [raised          |-> sem.raised,
              recommendations |-> IF sem.raised THEN recommendations
                                  ELSE Append(recommendations,
                                              Recommendation(job_id, job, skill_score, sem.value)),
              trace           |-> scored \o EmbedEvents(job_id, sem.calls)]

\* One iteration of the for loop; after the last one the list is sorted,
\* truncated and returned.  An exception anywhere ends the call
\* (except Exception as e: raise Exception(...)).
ScoreJob ==
    /\ pc = "loop"
    /\ idx <= Len(all_jobs)
    /\ \E outcome \in ProviderOutcomes :
         LET it == Iteration(idx, all_jobs[idx], outcome)
         IN  /\ recommendations' = it.recommendations
             /\ trace' = it.trace
             /\ idx' = idx + 1
             /\ IF it.raised
                THEN /\ pc' = "raised"
                     /\ result' = <<>>
                ELSE IF idx = Len(all_jobs)
                THEN /\ pc' = "returned"
                     /\ result' = SortAndTruncate(it.recommendations, max_recommendations)
                ELSE /\ pc' = "loop"
                     /\ result' = <<>>
    /\ UNCHANGED <<resume_id, min_skill_match, max_recommendations, all_jobs, scVars, simVars, exVars>>

---------------------------------------------------------------------------
(* Specifications *)

IdleRec ==
    /\ pc = "idle"
    /\ resume_id = ""
    /\ min_skill_match = Zero
    /\ max_recommendations = 0
    /\ idx = 0
    /\ recommendations = <<>>
    /\ result = <<>>
    /\ trace = <<>>

IdleScore ==
    /\ sc_resume = <<>>
    /\ sc_job = <<>>
    /\ sc_pc = "off"
    /\ sc_out = Zero

IdleSim ==
    /\ sim_resume = ""
    /\ sim_job = ""
    /\ sim_pc = "off"
    /\ sim_out = [raised |-> FALSE, value |-> Zero, calls |-> <<>>]

IdleExtract ==
    /\ ex_text = <<>>
    /\ ex_pc = "off"
    /\ ex_resume = <<>>
    /\ ex_job = <<>>

Init ==
    /\ IdleRec
    /\ all_jobs \in JobStores
    /\ IdleScore
    /\ IdleSim
    /\ IdleExtract

Next ==
    \/ \E rid \in ResumeIdArgs, min \in MinSkillMatchArgs, max \in MaxRecommendationsArgs :
          Call(rid, min, max)
    \/ ScoreJob

Spec == Init /\ [][Next]_vars

\* ---- SpecScore: calculate_skill_match_score on two skill mappings

\* The lists a category holds in a mapping of SpecScore.
ScoreLists ==
    [programming_languages |-> {<<>>, <<"python">>, <<"java">>, <<"python", "java">>,
                                <<"java", "python">>, <<"python", "python">>},
     frameworks            |-> {<<>>, <<"react">>},
     databases             |-> {<<>>, <<"mysql">>},
     cloud_platforms       |-> {<<>>, <<"aws">>},
     tools                 |-> {<<>>, <<"git">>}]

\* The key sets of a mapping of SpecScore: every category, one missing, none.
ScoreKeySets == {Categories, Categories \ {"frameworks"}, {}}

ScoreMappings ==
    {[c \in D |-> m[c]] :
        m \in [programming_languages : ScoreLists.programming_languages,
               frameworks            : ScoreLists.frameworks,
               databases             : ScoreLists.databases,
               cloud_platforms       : ScoreLists.cloud_platforms,
               tools                 : ScoreLists.tools],
        D \in ScoreKeySets}

InitScore ==
    /\ IdleRec
    /\ all_jobs = <<>>
    /\ sc_resume \in ScoreMappings
    /\ sc_job \in ScoreMappings
    /\ sc_pc = "input"
    /\ sc_out = Zero
    /\ IdleSim
    /\ IdleExtract

ApplyScore ==
    /\ sc_pc = "input"
    /\ sc_out' = calculate_skill_match_score(sc_resume, sc_job)
    /\ sc_pc' = "done"
    /\ UNCHANGED <<sc_resume, sc_job, recVars, simVars, exVars>>

NextScore == ApplyScore

SpecScore == InitScore /\ [][NextScore]_vars

\* ---- SpecSim: get_semantic_similarity_score on two texts

InitSim ==
    /\ IdleRec
    /\ all_jobs = <<>>
    /\ IdleScore
    /\ sim_resume \in Texts
    /\ sim_job \in Texts
    /\ sim_pc = "input"
    /\ sim_out = [raised |-> FALSE, value |-> Zero, calls |-> <<>>]
    /\ IdleExtract

ApplySim ==
    /\ sim_pc = "input"
    /\ \E outcome \in ProviderOutcomes :
          sim_out' = get_semantic_similarity_score(sim_resume, sim_job, outcome)
    /\ sim_pc' = "done"
    /\ UNCHANGED <<sim_resume, sim_job, recVars, scVars, exVars>>

NextSim == ApplySim

SpecSim == InitSim /\ [][NextSim]_vars

---------------------------------------------------------------------------
(* Skill extraction: ResumeParser.extract_skills and                       *)
(* JobCrawler.extract_skills_from_description                              *)

\* A text is a sequence of characters; a token of the taxonomy is its name
\* and its characters.

\* ResumeParser._load_skills_db
skills_db ==
    [programming_languages |->
        << [name |-> "python", chars |-> <<"p", "y", "t", "h", "o", "n">>],
           [name |-> "java", chars |-> <<"j", "a", "v", "a">>],
           [name |-> "javascript", chars |-> <<"j", "a", "v", "a", "s", "c", "r", "i", "p", "t">>],
           [name |-> "c++", chars |-> <<"c", "+", "+">>],
           [name |-> "ruby", chars |-> <<"r", "u", "b", "y">>],
           [name |-> "php", chars |-> <<"p", "h", "p">>],
           [name |-> "swift", chars |-> <<"s", "w", "i", "f", "t">>],
           [name |-> "kotlin", chars |-> <<"k", "o", "t", "l", "i", "n">>],
           [name |-> "go", chars |-> <<"g", "o">>],
           [name |-> "rust", chars |-> <<"r", "u", "s", "t">>],
           [name |-> "typescript", chars |-> <<"t", "y", "p", "e", "s", "c", "r", "i", "p", "t">>],
           [name |-> "scala", chars |-> <<"s", "c", "a", "l", "a">>],
           [name |-> "r", chars |-> <<"r">>],
           [name |-> "matlab", chars |-> <<"m", "a", "t", "l", "a", "b">>] >>,
     frameworks |->
        << [name |-> "react", chars |-> <<"r", "e", "a", "c", "t">>],
           [name |-> "angular", chars |-> <<"a", "n", "g", "u", "l", "a", "r">>],
           [name |-> "vue", chars |-> <<"v", "u", "e">>],
           [name |-> "django", chars |-> <<"d", "j", "a", "n", "g", "o">>],
           [name |-> "flask", chars |-> <<"f", "l", "a", "s", "k">>],
           [name |-> "spring", chars |-> <<"s", "p", "r", "i", "n", "g">>],
           [name |-> "express", chars |-> <<"e", "x", "p", "r", "e", "s", "s">>],
           [name |-> "fastapi", chars |-> <<"f", "a", "s", "t", "a", "p", "i">>],
           [name |-> "pytorch", chars |-> <<"p", "y", "t", "o", "r", "c", "h">>],
           [name |-> "tensorflow", chars |-> <<"t", "e", "n", "s", "o", "r", "f", "l", "o", "w">>],
           [name |-> "keras", chars |-> <<"k", "e", "r", "a", "s">>] >>,
     databases |->
        << [name |-> "mysql", chars |-> <<"m", "y", "s", "q", "l">>],
           [name |-> "postgresql", chars |-> <<"p", "o", "s", "t", "g", "r", "e", "s", "q", "l">>],
           [name |-> "mongodb", chars |-> <<"m", "o", "n", "g", "o", "d", "b">>],
           [name |-> "redis", chars |-> <<"r", "e", "d", "i", "s">>],
           [name |-> "elasticsearch", chars |-> <<"e", "l", "a", "s", "t", "i", "c", "s", "e", "a", "r", "c", "h">>],
           [name |-> "cassandra", chars |-> <<"c", "a", "s", "s", "a", "n", "d", "r", "a">>],
           [name |-> "oracle", chars |-> <<"o", "r", "a", "c", "l", "e">>],
           [name |-> "sql server", chars |-> <<"s", "q", "l", " ", "s", "e", "r", "v", "e", "r">>],
           [name |-> "sqlite", chars |-> <<"s", "q", "l", "i", "t", "e">>] >>,
     cloud_platforms |->
        << [name |-> "aws", chars |-> <<"a", "w", "s">>],
           [name |-> "azure", chars |-> <<"a", "z", "u", "r", "e">>],
           [name |-> "google cloud", chars |-> <<"g", "o", "o", "g", "l", "e", " ", "c", "l", "o", "u", "d">>],
           [name |-> "heroku", chars |-> <<"h", "e", "r", "o", "k", "u">>],
           [name |-> "digitalocean", chars |-> <<"d", "i", "g", "i", "t", "a", "l", "o", "c", "e", "a", "n">>],
           [name |-> "kubernetes", chars |-> <<"k", "u", "b", "e", "r", "n", "e", "t", "e", "s">>],
           [name |-> "docker", chars |-> <<"d", "o", "c", "k", "e", "r">>],
           [name |-> "terraform", chars |-> <<"t", "e", "r", "r", "a", "f", "o", "r", "m">>] >>,
     tools |->
        << [name |-> "git", chars |-> <<"g", "i", "t">>],
           [name |-> "jenkins", chars |-> <<"j", "e", "n", "k", "i", "n", "s">>],
           [name |-> "jira", chars |-> <<"j", "i", "r", "a">>],
           [name |-> "confluence", chars |-> <<"c", "o", "n", "f", "l", "u", "e", "n", "c", "e">>],
           [name |-> "slack", chars |-> <<"s", "l", "a", "c", "k">>],
           [name |-> "postman", chars |-> <<"p", "o", "s", "t", "m", "a", "n">>],
           [name |-> "webpack", chars |-> <<"w", "e", "b", "p", "a", "c", "k">>],
           [name |-> "npm", chars |-> <<"n", "p", "m">>],
           [name |-> "yarn", chars |-> <<"y", "a", "r", "n">>],
           [name |-> "maven", chars |-> <<"m", "a", "v", "e", "n">>],
           [name |-> "gradle", chars |-> <<"g", "r", "a", "d", "l", "e">>] >>]

\* The alternatives of the five patterns of extract_skills_from_description,
\* in the order the patterns list them.
skill_patterns ==
    [programming_languages |->
        << [name |-> "python", chars |-> <<"p", "y", "t", "h", "o", "n">>],
           [name |-> "java", chars |-> <<"j", "a", "v", "a">>],
           [name |-> "javascript", chars |-> <<"j", "a", "v", "a", "s", "c", "r", "i", "p", "t">>],
           [name |-> "c++", chars |-> <<"c", "+", "+">>],
           [name |-> "ruby", chars |-> <<"r", "u", "b", "y">>],
           [name |-> "php", chars |-> <<"p", "h", "p">>],
           [name |-> "swift", chars |-> <<"s", "w", "i", "f", "t">>],
           [name |-> "kotlin", chars |-> <<"k", "o", "t", "l", "i", "n">>],
           [name |-> "go", chars |-> <<"g", "o">>],
           [name |-> "rust", chars |-> <<"r", "u", "s", "t">>],
           [name |-> "typescript", chars |-> <<"t", "y", "p", "e", "s", "c", "r", "i", "p", "t">>],
           [name |-> "scala", chars |-> <<"s", "c", "a", "l", "a">>],
           [name |-> "r", chars |-> <<"r">>],
           [name |-> "matlab", chars |-> <<"m", "a", "t", "l", "a", "b">>] >>,
     frameworks |->
        << [name |-> "react", chars |-> <<"r", "e", "a", "c", "t">>],
           [name |-> "angular", chars |-> <<"a", "n", "g", "u", "l", "a", "r">>],
           [name |-> "vue", chars |-> <<"v", "u", "e">>],
           [name |-> "django", chars |-> <<"d", "j", "a", "n", "g", "o">>],
           [name |-> "flask", chars |-> <<"f", "l", "a", "s", "k">>],
           [name |-> "spring", chars |-> <<"s", "p", "r", "i", "n", "g">>],
           [name |-> "express", chars |-> <<"e", "x", "p", "r", "e", "s", "s">>],
           [name |-> "fastapi", chars |-> <<"f", "a", "s", "t", "a", "p", "i">>],
           [name |-> "pytorch", chars |-> <<"p", "y", "t", "o", "r", "c", "h">>],
           [name |-> "tensorflow", chars |-> <<"t", "e", "n", "s", "o", "r", "f", "l", "o", "w">>],
           [name |-> "keras", chars |-> <<"k", "e", "r", "a", "s">>] >>,
     databases |->
        << [name |-> "mysql", chars |-> <<"m", "y", "s", "q", "l">>],
           [name |-> "postgresql", chars |-> <<"p", "o", "s", "t", "g", "r", "e", "s", "q", "l">>],
           [name |-> "mongodb", chars |-> <<"m", "o", "n", "g", "o", "d", "b">>],
           [name |-> "redis", chars |-> <<"r", "e", "d", "i", "s">>],
           [name |-> "elasticsearch", chars |-> <<"e", "l", "a", "s", "t", "i", "c", "s", "e", "a", "r", "c", "h">>],
           [name |-> "cassandra", chars |-> <<"c", "a", "s", "s", "a", "n", "d", "r", "a">>],
           [name |-> "oracle", chars |-> <<"o", "r", "a", "c", "l", "e">>],
           [name |-> "sql server", chars |-> <<"s", "q", "l", " ", "s", "e", "r", "v", "e", "r">>],
           [name |-> "sqlite", chars |-> <<"s", "q", "l", "i", "t", "e">>] >>,
     cloud_platforms |->
        << [name |-> "aws", chars |-> <<"a", "w", "s">>],
           [name |-> "azure", chars |-> <<"a", "z", "u", "r", "e">>],
           [name |-> "google cloud", chars |-> <<"g", "o", "o", "g", "l", "e", " ", "c", "l", "o", "u", "d">>],
           [name |-> "heroku", chars |-> <<"h", "e", "r", "o", "k", "u">>],
           [name |-> "digitalocean", chars |-> <<"d", "i", "g", "i", "t", "a", "l", "o", "c", "e", "a", "n">>],
           [name |-> "kubernetes", chars |-> <<"k", "u", "b", "e", "r", "n", "e", "t", "e", "s">>],
           [name |-> "docker", chars |-> <<"d", "o", "c", "k", "e", "r">>],
           [name |-> "terraform", chars |-> <<"t", "e", "r", "r", "a", "f", "o", "r", "m">>] >>,
     tools |->
        << [name |-> "git", chars |-> <<"g", "i", "t">>],
           [name |-> "jenkins", chars |-> <<"j", "e", "n", "k", "i", "n", "s">>],
           [name |-> "jira", chars |-> <<"j", "i", "r", "a">>],
           [name |-> "confluence", chars |-> <<"c", "o", "n", "f", "l", "u", "e", "n", "c", "e">>],
           [name |-> "slack", chars |-> <<"s", "l", "a", "c", "k">>],
           [name |-> "postman", chars |-> <<"p", "o", "s", "t", "m", "a", "n">>],
           [name |-> "webpack", chars |-> <<"w", "e", "b", "p", "a", "c", "k">>],
           [name |-> "npm", chars |-> <<"n", "p", "m">>],
           [name |-> "yarn", chars |-> <<"y", "a", "r", "n">>],
           [name |-> "maven", chars |-> <<"m", "a", "v", "e", "n">>],
           [name |-> "gradle", chars |-> <<"g", "r", "a", "d", "l", "e">>] >>]

UpperLetters ==
    <<"A", "B", "C", "D", "E", "F", "G", "H", "I", "J", "K", "L", "M", "N", "O", "P", "Q", "R", "S", "T", "U", "V", "W", "X", "Y", "Z">>
LowerLetters ==
    <<"a", "b", "c", "d", "e", "f", "g", "h", "i", "j", "k", "l", "m", "n", "o", "p", "q", "r", "s", "t", "u", "v", "w", "x", "y", "z">>
Digits == {"0", "1", "2", "3", "4", "5", "6", "7", "8", "9"}

\* str.lower, character by character
LowerOf == [c \in Range(UpperLetters) |->
              LowerLetters[CHOOSE k \in DOMAIN UpperLetters : UpperLetters[k] = c]]
LowerChar(c) == IF c \in DOMAIN LowerOf THEN LowerOf[c] ELSE c
Lower(text) == [k \in DOMAIN text |-> LowerChar(text[k])]

\* \w of the re module: letters, digits and the underscore.
WordChars == Range(UpperLetters) \cup Range(LowerLetters) \cup Digits \cup {"_"}
IsWordChar(c) == c \in WordChars

\* Whether the character at place p of text is a word character (places
\* outside the text are not).
WordAt(text, p) == p \in DOMAIN text /\ IsWordChar(text[p])

\* \b just before place p: exactly one of the two neighbours is a word character.
WordBoundary(text, p) == WordAt(text, p - 1) # WordAt(text, p)

\* re.escape(skill): the token's characters, matched literally from place p.
LiteralAt(text, p, token) ==
    /\ p + Len(token) - 1 <= Len(text)
    /\ \A k \in DOMAIN token : text[p + k - 1] = token[k]

\* \b + literal + \b matched at place p
TokenAt(text, p, token) ==
    /\ WordBoundary(text, p)
    /\ LiteralAt(text, p, token)
    /\ WordBoundary(text, p + Len(token))

\* re.search(pattern, text)
Search(text, token) == \E p \in DOMAIN text : TokenAt(text, p, token)

\* found_skills = {category: [] for category in self.skills_db.keys()}
FoundKeys_WithoutTools == DOMAIN skills_db \ {"tools"}
FoundKeys == DOMAIN skills_db

\* The list extract_skills builds for one category: the tokens found, in
\* the order of the taxonomy.
RECURSIVE FoundIn(_, _, _)
FoundIn(text, tokens, k) ==
    IF k > Len(tokens) THEN <<>>
    ELSE (IF Search(text, tokens[k].chars) THEN <<tokens[k].name>> ELSE <<>>)
            \o FoundIn(text, tokens, k + 1)

extract_skills(text) ==
    [category \in FoundKeys |-> FoundIn(Lower(text), skills_db[category], 1)]

\* One attempt of \b(a1|a2|...)\b at place p: the first alternative, in the
\* pattern's order, with which the whole pattern matches (an alternative
\* whose closing \b fails is given up for the next one); 0 when none does.
FirstAlternative_NoBacktracking(text, p, alternatives) ==
    LET fits == {k \in DOMAIN alternatives :
                    WordBoundary(text, p) /\ LiteralAt(text, p, alternatives[k].chars)}
        k1   == CHOOSE k \in fits : \A j \in fits : k <= j
    IN  IF fits = {} THEN 0
        ELSE IF WordBoundary(text, p + Len(alternatives[k1].chars)) THEN k1 ELSE 0
FirstAlternative(text, p, alternatives) ==
    LET fits == {k \in DOMAIN alternatives : TokenAt(text, p, alternatives[k].chars)}
    IN  IF fits = {} THEN 0 ELSE CHOOSE k \in fits : \A j \in fits : k <= j

\* re.findall(pattern, text): the matches from left to right, the scan
\* going on after the end of each match.
RECURSIVE FindAll(_, _, _)
FindAll(text, alternatives, p) ==
    IF p > Len(text) THEN <<>>
    ELSE LET k == FirstAlternative(text, p, alternatives)
         IN  IF k = 0 THEN FindAll(text, alternatives, p + 1)
             ELSE <<alternatives[k].name>>
                     \o FindAll(text, alternatives, p + Len(alternatives[k].chars))

\* extract_skills_from_description: per category list(set(matches)); the
\* order of that list is not fixed, so the model keeps the set.
extract_skills_from_description(description) ==
    [category \in DOMAIN skill_patterns |->
        Range(FindAll(Lower(description), skill_patterns[category], 1))]

\* The pieces the texts of SpecExtract are put together from.
TextPieces ==
    { <<"T", "y", "p", "e", "S", "c", "r", "i", "p", "t">>,
      <<"o", "g", "r", "a", "p", "h", "y">>,
      <<" ">>,
      <<"c", "+", "+">>,
      <<"j", "a", "v", "a">>,
      <<"s", "c", "r", "i", "p", "t">>,
      <<"s", "q", "l", " ", "s", "e", "r", "v", "e", "r">>,
      <<"_">>,
      <<"x">>,
      <<"g", "i", "t">> }

\* The largest number of pieces in a text.
MaxPieces == 3

RECURSIVE Concat(_)
Concat(parts) == IF parts = <<>> THEN <<>> ELSE Head(parts) \o Concat(Tail(parts))

ExtractTexts == {Concat(parts) : parts \in UNION {[1..n -> TextPieces] : n \in 0..MaxPieces}}

InitExtract ==
    /\ IdleRec
    /\ all_jobs = <<>>
    /\ IdleScore
    /\ IdleSim
    /\ ex_text \in ExtractTexts
    /\ ex_pc = "input"
    /\ ex_resume = <<>>
    /\ ex_job = <<>>

\* The same text given to both extractors.
ApplyExtract ==
    /\ ex_pc = "input"
    /\ ex_resume' = extract_skills(ex_text)
    /\ ex_job' = extract_skills_from_description(ex_text)
    /\ ex_pc' = "done"
    /\ UNCHANGED <<ex_text, recVars, scVars, simVars>>

NextExtract == ApplyExtract

SpecExtract == InitExtract /\ [][NextExtract]_vars

---------------------------------------------------------------------------
(* Properties *)

\* The skill score of the store's j-th job against the stored resume.
SkillScoreOfJob(j) ==
    calculate_skill_match_score(JsonLoads(SkillsText(ResumeDoc.metadata)).value,
                                JsonLoads(SkillsText(all_jobs[j].metadata)).value)

JobIdsOf(recs) == {recs[k].job_id : k \in DOMAIN recs}

\* min_skill_match in [0, 1] and max_recommendations > 0
ArgsValid ==
    /\ RGe(min_skill_match, Zero)
    /\ RLe(min_skill_match, One)
    /\ max_recommendations > 0

\* The jobs for which an embed call of this request raised.
EmbedFailedJobs == {trace[k].job : k \in {i \in DOMAIN trace : trace[i].op = "embed" /\ ~trace[i].ok}}

\* C1: every returned entry has skill_match_score >= min_skill_match, and no
\* job of the store whose skill score is below min_skill_match is returned.
C1_ReturnedMeetThreshold ==
    pc = "returned" =>
        /\ \A k \in DOMAIN result : RGe(result[k].skill_match_score, min_skill_match)
        /\ \A j \in DOMAIN all_jobs :
              RLt(SkillScoreOfJob(j), min_skill_match) => j \notin JobIdsOf(result)

\* The scenario of C1: min_skill_match 0.3, a job scoring 0.2 and one scoring
\* 0.4, and only the latter returned.
C1_Witness ==
    /\ pc = "returned"
    /\ min_skill_match = Rat(3, 10)
    /\ Len(all_jobs) = 2
    /\ \E i, j \in DOMAIN all_jobs :
          /\ SkillScoreOfJob(i) = Rat(1, 5)
          /\ SkillScoreOfJob(j) = Rat(2, 5)
          /\ JobIdsOf(result) = {j}

\* The first n entries of s, all of them when s has fewer (none for n <= 0).
FirstN(s, n) == SubSeq(s, 1, IF n < Len(s) THEN n ELSE Len(s))

\* C2: a returned list has at most max_recommendations entries (read as: no
\* entry at all when max_recommendations is not positive) and is the first
\* max_recommendations entries of the sorted surviving results.
C2_AtMostMaxFirstOfSorted ==
    pc = "returned" =>
        /\ Len(result) <= (IF max_recommendations > 0 THEN max_recommendations ELSE 0)
        /\ result = FirstN(SortByFinalScore(recommendations), max_recommendations)

\* C3: the returned list is ordered by final_score descending (no entry is
\* followed by one with a greater final_score), and entries with equal
\* final_score keep the order of their jobs in the store.  Stated for the
\* calls with valid arguments, which is all it takes to refute it.
C3_SortedDescendingStable ==
    (pc = "returned" /\ ArgsValid) =>
        \A i, j \in DOMAIN result :
            i < j =>
                /\ ~RLt(result[i].final_score, result[j].final_score)
                /\ result[i].final_score = result[j].final_score
                      => result[i].job_id < result[j].job_id

\* C4: every embed call of the request is made on behalf of a job whose
\* skill score was computed earlier in the request and is >= min_skill_match.
C4_EmbedOnlyAfterPassingSkill ==
    \A k \in DOMAIN trace :
        trace[k].op = "embed" =>
            /\ \E s \in 1..(k - 1) :
                  /\ trace[s].op = "skill"
                  /\ trace[s].job = trace[k].job
                  /\ RGe(trace[s].score, min_skill_match)
            /\ RGe(SkillScoreOfJob(trace[k].job), min_skill_match)

\* A finished request that scored a job below the threshold (no embed call
\* for it) and embedded for another job.
C4_Witness ==
    /\ pc = "returned"
    /\ \E k \in DOMAIN trace : trace[k].op = "embed"
    /\ \E s \in DOMAIN trace :
          /\ trace[s].op = "skill"
          /\ RLt(trace[s].score, min_skill_match)
          /\ \A k \in DOMAIN trace : trace[k].op = "embed" => trace[k].job # trace[s].job

\* The reference score of C5: over the weighted categories whose job skill
\* set is non-empty, sum(weight * |resume n job| / |job|) / sum(weight),
\* and 0 when there is no such category.
RefCounted(c, job_skills) == Range(job_skills[c]) # {}
RefNumerator(c, resume_skills, job_skills) ==
    IF RefCounted(c, job_skills)
    THEN RMul(weights[c],
              Rat(Cardinality(Range(resume_skills[c]) \cap Range(job_skills[c])),
                  Cardinality(Range(job_skills[c]))))
    ELSE Zero
RefDenominator(c, job_skills) == IF RefCounted(c, job_skills) THEN weights[c] ELSE Zero
ReferenceScore(resume_skills, job_skills) ==
    LET num == RAdd(RefNumerator("programming_languages", resume_skills, job_skills),
               RAdd(RefNumerator("frameworks", resume_skills, job_skills),
               RAdd(RefNumerator("databases", resume_skills, job_skills),
               RAdd(RefNumerator("cloud_platforms", resume_skills, job_skills),
                    RefNumerator("tools", resume_skills, job_skills)))))
        den == RAdd(RefDenominator("programming_languages", job_skills),
               RAdd(RefDenominator("frameworks", job_skills),
               RAdd(RefDenominator("databases", job_skills),
               RAdd(RefDenominator("cloud_platforms", job_skills),
                    RefDenominator("tools", job_skills)))))
    IN  IF \A c \in Categories : ~RefCounted(c, job_skills) THEN Zero ELSE RDiv(num, den)

C5_ExampleResume == Skills(<<"python">>, <<>>, <<>>, <<>>, <<>>)
C5_ExampleJob == Skills(<<"python", "java">>, <<>>, <<>>, <<>>, <<>>)

\* C5: on mappings with a key for every weighted category,
\* calculate_skill_match_score equals the reference score; resume {python}
\* against job {python, java}, every other category empty, scores 1/2.
C5_ScoreEqualsReference ==
    (sc_pc = "done" /\ DOMAIN sc_resume = Categories /\ DOMAIN sc_job = Categories) =>
        /\ sc_out = ReferenceScore(sc_resume, sc_job)
        /\ (sc_resume = C5_ExampleResume /\ sc_job = C5_ExampleJob) => sc_out = Rat(1, 2)

\* The scenario of C5, scored.
C5_Witness ==
    /\ sc_pc = "done"
    /\ sc_resume = C5_ExampleResume
    /\ sc_job = C5_ExampleJob
    /\ sc_out = Rat(1, 2)

\* C6: in every entry built for a job that passed the threshold,
\* final_score = 0.7 * skill_match_score + 0.3 * semantic_similarity.
C6_FinalScoreIsWeightedSum ==
    \A r \in Range(recommendations) \cup Range(result) :
        r.final_score = RAdd(RMul(Rat(7, 10), r.skill_match_score),
                             RMul(Rat(3, 10), r.semantic_similarity))

\* A returned entry with skill score 1/2 and similarity 24/25: final 319/500.
C6_Witness ==
    /\ pc = "returned"
    /\ \E r \in Range(result) :
          /\ r.skill_match_score = Rat(1, 2)
          /\ r.semantic_similarity = Rat(24, 25)
          /\ r.final_score = Rat(319, 500)

\* C7: an embed call that raises does not end the request: the job it was
\* made for is in recommendations with semantic_similarity 0, the request
\* raises only for a missing resume or skills that are not JSON, and a
\* returned list holds every job that passed the threshold when no more
\* than max_recommendations passed.
C7_EmbedFailureDegrades ==
    /\ \A j \in EmbedFailedJobs :
          \E r \in Range(recommendations) : r.job_id = j /\ r.semantic_similarity = Zero
    /\ pc = "raised" =>
          \/ resume_id \notin StoredResumeIds
          \/ JsonLoads(SkillsText(all_jobs[idx - 1].metadata)).raised
    /\ (pc = "returned" /\ Len(recommendations) <= max_recommendations) =>
          /\ JobIdsOf(result) = {j \in DOMAIN all_jobs : RGe(SkillScoreOfJob(j), min_skill_match)}
          /\ \A k \in DOMAIN result :
                result[k].job_id \in EmbedFailedJobs => result[k].semantic_similarity = Zero

\* The scenario of C7: three jobs pass, the provider fails for one of them,
\* and the returned list holds all three.
C7_Witness ==
    /\ pc = "returned"
    /\ Len(all_jobs) = 3
    /\ \A j \in DOMAIN all_jobs : RGe(SkillScoreOfJob(j), min_skill_match)
    /\ Cardinality(EmbedFailedJobs) = 1
    /\ JobIdsOf(result) = {1, 2, 3}
    /\ \E k \in DOMAIN result :
          result[k].job_id \in EmbedFailedJobs /\ result[k].semantic_similarity = Zero

\* C8: get_semantic_similarity_score returns 0.0, and does not raise,
\* whenever one of the two embedding vectors has zero norm.
C8_ZeroNormGivesZero ==
    (sim_pc = "done"
        /\ (VecNorm(EmbedVector[sim_resume]) = 0 \/ VecNorm(EmbedVector[sim_job]) = 0)) =>
        /\ ~sim_out.raised
        /\ sim_out.value = Zero

\* C9: a call with min_skill_match outside [0, 1] or max_recommendations <= 0
\* returns no list.
C9_InvalidArgsRejected == pc = "returned" => ArgsValid

\* C10: the call fails only for an invalid argument among its own
\* parameters (an unknown resume_id counted as one): a failure while
\* scoring one job never fails it.
C10_OnlyInvalidArgsFail ==
    pc = "raised" => (~ArgsValid \/ resume_id \notin StoredResumeIds)

\* The embed calls of the request made for the resume's text.
ResumeEmbedCalls ==
    {k \in DOMAIN trace : trace[k].op = "embed" /\ trace[k].text = ResumeDoc.page_content}

\* C11: within one request the provider is called at most once for a given
\* text; stated for the resume's text, the case the claim singles out.
C11_ResumeEmbeddedAtMostOnce == Cardinality(ResumeEmbedCalls) <= 1

\* C14: calculate_skill_match_score returns a value in [0, 1], whatever the
\* two mappings (keys missing, lists empty, repeated or reordered).
C14_ScoreInUnitInterval ==
    sc_pc = "done" => (RGe(sc_out, Zero) /\ RLe(sc_out, One))

\* A score strictly between 0 and 1, from a resume mapping with a key missing.
C14_Witness ==
    /\ sc_pc = "done"
    /\ DOMAIN sc_resume # Categories
    /\ RGt(sc_out, Zero)
    /\ RLt(sc_out, One)

\* C15: a mapping in which every weighted category is non-empty scores
\* exactly 1 against itself.
C15_SelfScoreIsOne ==
    (sc_pc = "done"
        /\ sc_resume = sc_job
        /\ DOMAIN sc_job = Categories
        /\ \A c \in Categories : Range(sc_job[c]) # {}) =>
        sc_out = One

\* A mapping with every category non-empty and a repeated token, scored
\* against itself.
C15_Witness ==
    /\ sc_pc = "done"
    /\ sc_resume = sc_job
    /\ sc_job = Skills(<<"python", "python">>, <<"react">>, <<"mysql">>, <<"aws">>, <<"git">>)
    /\ sc_out = One

AlnumChars == Range(UpperLetters) \cup Range(LowerLetters) \cup Digits
AlnumAt(text, p) == p \in DOMAIN text /\ text[p] \in AlnumChars

\* The whole-token match of C12: the token occurs literally, with no
\* alphanumeric character next to an end of it that is alphanumeric.
RefWholeToken(text, token) ==
    \E p \in DOMAIN text :
        /\ LiteralAt(text, p, token)
        /\ token[1] \in AlnumChars => ~AlnumAt(text, p - 1)
        /\ token[Len(token)] \in AlnumChars => ~AlnumAt(text, p + Len(token))

\* C12: extract_skills reports a token exactly when the lowercased text
\* holds it as a whole token.  Stated for the texts without an underscore
\* (which \b takes for a word character), which is all it takes to refute it.
C12_ReportsExactlyWholeTokens ==
    (ex_pc = "done" /\ "_" \notin Range(ex_text)) =>
        \A category \in DOMAIN skills_db :
            \A k \in DOMAIN skills_db[category] :
                skills_db[category][k].name \in Range(ex_resume[category])
                    <=> RefWholeToken(Lower(ex_text), skills_db[category][k].chars)

TokenNames(tokens) == {tokens[k].name : k \in DOMAIN tokens}

\* C13: the keys of extract_skills' result are exactly the taxonomy's
\* categories, each value holds only tokens of its category, and the empty
\* text gives every category an empty list.
C13_KeysAreTheCategories ==
    ex_pc = "done" =>
        /\ DOMAIN ex_resume = DOMAIN skills_db
        /\ DOMAIN ex_resume = Categories
        /\ \A category \in DOMAIN ex_resume :
              Range(ex_resume[category]) \subseteq TokenNames(skills_db[category])
        /\ ex_text = <<>> => \A category \in DOMAIN ex_resume : ex_resume[category] = <<>>

\* The empty text, extracted: five keys, five empty lists.
C13_Witness ==
    /\ ex_pc = "done"
    /\ ex_text = <<>>
    /\ Cardinality(DOMAIN ex_resume) = 5
    /\ \A category \in DOMAIN ex_resume : ex_resume[category] = <<>>

\* C16: on the same text the two extractors return the same keys and, per
\* category, the same set of tokens.
C16_ExtractorsAgree ==
    ex_pc = "done" =>
        /\ DOMAIN ex_resume = DOMAIN ex_job
        /\ \A category \in DOMAIN ex_resume :
              Range(ex_resume[category]) = ex_job[category]

\* "javascript": the alternation meets java before javascript and has to
\* go on to the longer token; both extractors report javascript alone.
C16_Witness ==
    /\ ex_pc = "done"
    /\ Len(ex_text) = 10
    /\ ex_job.programming_languages = {"javascript"}
    /\ Range(ex_resume.programming_languages) = {"javascript"}

====
